---- MODULE Spec2Model ----
(***************************************************************************)
(* Post fulfillment scheduler of the marketing SaaS backend:               *)
(*   backend/services/scheduler_service.py  (poller, pipeline, planner)    *)
(*   backend/services/credits_service.py    (credit ledger)                *)
(*   backend/database.py                    (rows and enums)               *)
(*                                                                         *)
(* The datastore is the three tables users, scheduled_posts and            *)
(* credit_transactions.  Every db.commit() of the code is one step of the  *)
(* model, so every committed state of a row is a state of the model.       *)
(* The process runs one asyncio event loop: `ready` is the loop's FIFO     *)
(* queue of the scheduler's tasks (the periodic job and the process_post   *)
(* tasks it creates), `runs` are the process_post coroutines suspended at  *)
(* an await or between two commits.                                        *)
(*                                                                         *)
(* Instants are minutes since midnight of day 0.  Credits are whole        *)
(* credits (the Float columns only ever hold sums of the amounts given).   *)
(***************************************************************************)
EXTENDS Integers, Sequences, FiniteSets, Bags, TLC

\* ---------------------------------------------------------------- bounds
MaxPosts == 2        \* rows ever inserted into scheduled_posts
MaxDays == 1         \* the clock stops after this many days
BatchCount == 1      \* instants per schedule_posts_for_user call (count=10 in the code)
MaxPurchases == 1    \* add_credits calls
MaxCount == 3        \* largest count the planner is called with on its own
MaxCustomDays == 3   \* largest custom_recurrence_days the planner is given

\* ------------------------------------------------------ program constants
CREDITS_PER_POST == 1
DEFAULT_CREDITS == 1
DayMinutes == 1440
HourMinutes == 60
FallbackHour == 10
FallbackMinute == 0
DefaultInterval == 7

ClockStep == DayMinutes \div 2
MaxTime == MaxDays * DayMinutes

Users == {"u1", "u2"}
PostIds == 1..MaxPosts

\* PostStatus
SCHEDULED == "scheduled"
GENERATING == "generating"
READY == "ready"
POSTING == "posting"
POSTED == "posted"
FAILED == "failed"
PostStatus == {SCHEDULED, GENERATING, READY, POSTING, POSTED, FAILED}

\* RecurrenceType
DAILY == "daily"
WEEKLY == "weekly"
BIWEEKLY == "biweekly"
MONTHLY == "monthly"
CUSTOM == "custom"
RecurrenceType == {DAILY, WEEKLY, BIWEEKLY, MONTHLY, CUSTOM}

\* NULL of a text column, of a DateTime column, of a foreign key
Null == "null"
NoTime == -1
NoPost == 0

InsufficientMsg == "Creditos insuficientes"
ContentError == "content provider error"
ImageError == "image provider error"
PublishError == "publish provider error"
BillingError == "ledger write error"

VARIABLES
    now,            \* datetime.now(timezone.utc), in minutes
    users,          \* table users: user id -> row
    posts,          \* table scheduled_posts: post id -> row
    transactions,   \* table credit_transactions, in creation order
    nextId,         \* number of post ids handed out so far, plus one
    ready,          \* the event loop's queue of scheduler tasks not yet started
    runs,           \* bag of process_post coroutines that have started
    calls,          \* per post: process_post tasks created for it and requests
                    \* received for it by each external provider
    response,       \* what the last cancel_post or reschedule_post call returned
                    \* to a caller that records it
    planner         \* a call of _calculate_schedule_dates on its own: the
                    \* arguments and, once it has run, what it returned

vars == <<now, users, posts, transactions, nextId, ready, runs, calls, response, planner>>

\* ------------------------------------------------------------ rows
\* ScheduledPost(user_id=..., scheduled_at=..., status=SCHEDULED) with the
\* column defaults
NewPost(u, at) ==
    [user_id |-> u, scheduled_at |-> at, posted_at |-> NoTime,
     image_prompt |-> Null, caption |-> Null, image_url |-> Null,
     image_local_path |-> Null, status |-> SCHEDULED, error_message |-> Null,
     facebook_post_id |-> Null, facebook_post_url |-> Null,
     credits_charged |-> 0]

\* User(...) as created by the OAuth callback, with the column defaults
NewUser ==
    [credits |-> DEFAULT_CREDITS, total_credits_purchased |-> 0,
     total_credits_used |-> 0, is_onboarded |-> FALSE,
     posting_recurrence |-> WEEKLY, custom_recurrence_days |-> 7,
     preferred_posting_time |-> <<"1", "0", ":", "0", "0">>]

RECURSIVE SumAmounts(_)
SumAmounts(txs) ==
    IF txs = <<>> THEN 0 ELSE txs[1].amount + SumAmounts(Tail(txs))

RECURSIVE SelectTx(_, _)
\* the rows of credit_transactions of one user, in creation order
SelectTx(txs, u) ==
    IF txs = <<>> THEN <<>>
    ELSE IF txs[1].user_id = u THEN <<txs[1]>> \o SelectTx(Tail(txs), u)
         ELSE SelectTx(Tail(txs), u)

TxOfPost(p) == {i \in 1..Len(transactions) : transactions[i].post_id = p}

\* --------------------------------------------------- Recurrence Planner
\* A time-of-day string is the sequence of its characters.
Digits == {"0", "1", "2", "3", "4", "5", "6", "7", "8", "9"}

DigitVal(c) ==
    CASE c = "0" -> 0 [] c = "1" -> 1 [] c = "2" -> 2 [] c = "3" -> 3
      [] c = "4" -> 4 [] c = "5" -> 5 [] c = "6" -> 6 [] c = "7" -> 7
      [] c = "8" -> 8 [] c = "9" -> 9

RECURSIVE Split(_, _)
\* str.split(sep): the pieces between the separators, empty pieces kept
Split(s, sep) ==
    IF \E i \in 1..Len(s) : s[i] = sep
    THEN LET i == CHOOSE k \in 1..Len(s) :
                      s[k] = sep /\ \A j \in 1..(k - 1) : s[j] # sep
         IN <<SubSeq(s, 1, i - 1)>> \o Split(SubSeq(s, i + 1, Len(s)), sep)
    ELSE <<s>>

RECURSIVE DigitsVal(_)
DigitsVal(s) ==
    IF s = <<>> THEN 0
    ELSE 10 * DigitsVal(SubSeq(s, 1, Len(s) - 1)) + DigitVal(s[Len(s)])

\* int(text) accepts an optional sign followed by at least one digit and
\* raises ValueError on anything else
IsIntLiteral(s) ==
    LET body == IF s # <<>> /\ s[1] \in {"-", "+"} THEN Tail(s) ELSE s
    IN body # <<>> /\ \A i \in 1..Len(body) : body[i] \in Digits

IntOf(s) ==
    IF s[1] = "-" THEN 0 - DigitsVal(Tail(s))
    ELSE IF s[1] = "+" THEN DigitsVal(Tail(s))
    ELSE DigitsVal(s)

\* hour, minute = map(int, preferred_time.split(':')), with the bare
\* except: any failure (not exactly two pieces, a piece that is no integer,
\* None instead of a string, written <<>> here) gives 10:00
ParsePreferredTime(preferred_time) ==
    LET parts == Split(preferred_time, ":")
    IN IF Len(parts) = 2 /\ IsIntLiteral(parts[1]) /\ IsIntLiteral(parts[2])
       THEN [hour |-> IntOf(parts[1]), minute |-> IntOf(parts[2])]
       ELSE [hour |-> FallbackHour, minute |-> FallbackMinute]

\* the if/elif chain on the recurrence; `custom_days or 7` takes 7 for
\* None and for 0 (both written 0 here) and keeps any other integer
IntervalDays(recurrence, custom_days) ==
    CASE recurrence = DAILY -> 1
      [] recurrence = WEEKLY -> 7
      [] recurrence = BIWEEKLY -> 14
      [] recurrence = MONTHLY -> 30
      [] OTHER -> IF custom_days # 0 THEN custom_days ELSE DefaultInterval

\* datetime.replace raises ValueError for an hour outside 0..23 or a minute
\* outside 0..59; the planner does not catch it
ReplaceOk(hm) == hm.hour \in 0..23 /\ hm.minute \in 0..59

\* start_from.replace(hour=hour, minute=minute, second=0, microsecond=0)
ReplaceTime(start_from, hm) ==
    (start_from \div DayMinutes) * DayMinutes + hm.hour * HourMinutes + hm.minute

\* the planner moving to the next day only when the candidate is before
\* start_from
CalculateScheduleDatesInclusive(recurrence, custom_days, preferred_time, start_from, count) ==
    LET hm == ParsePreferredTime(preferred_time)
        interval_days == IntervalDays(recurrence, custom_days)
        candidate == ReplaceTime(start_from, hm)
        first == IF candidate < start_from THEN candidate + DayMinutes
                 ELSE candidate
    IN IF ~ReplaceOk(hm) THEN [raised |-> TRUE, dates |-> <<>>]
       ELSE [raised |-> FALSE,
             dates |-> [i \in 1..count |->
                           first + (i - 1) * interval_days * DayMinutes]]

\* _calculate_schedule_dates: [raised |-> TRUE] when replace raises,
\* otherwise the list of count instants
CalculateScheduleDates(recurrence, custom_days, preferred_time, start_from, count) ==
    LET hm == ParsePreferredTime(preferred_time)
        interval_days == IntervalDays(recurrence, custom_days)
        candidate == ReplaceTime(start_from, hm)
        first == IF candidate <= start_from THEN candidate + DayMinutes
                 ELSE candidate
    IN IF ~ReplaceOk(hm) THEN [raised |-> TRUE, dates |-> <<>>]
       ELSE [raised |-> FALSE,
             dates |-> [i \in 1..count |->
                           first + (i - 1) * interval_days * DayMinutes]]

NoRows == [p \in {} |-> NewPost("u1", 0)]

NoCalls == [process_post |-> 0, content |-> 0, image |-> 0, publish |-> 0]

\* no call whose return value is kept has returned yet
NoResponse ==
    [op |-> "none", post |-> NoPost, new_date |-> NoTime, success |-> FALSE,
     user |-> Null, entries |-> <<>>]

\* the bool a call of cancel_post or reschedule_post returned, with the
\* call's arguments
Response(op, p, new_date, success) ==
    [op |-> op, post |-> p, new_date |-> new_date, success |-> success,
     user |-> Null, entries |-> <<>>]

\* the list a call of schedule_posts_for_user returned, with the call's
\* argument
Scheduled(u, entries) ==
    [op |-> "schedule", post |-> NoPost, new_date |-> NoTime, success |-> TRUE,
     user |-> u, entries |-> entries]

\* the planner is not being called on its own
NoPlan == [called |-> FALSE]

Init ==
    /\ now = 0
    /\ users = [u \in Users |-> NewUser]
    /\ posts = NoRows
    /\ transactions = <<>>
    /\ nextId = 1
    /\ ready = <<>>
    /\ runs = EmptyBag
    /\ calls = [p \in PostIds |-> NoCalls]
    /\ response = NoResponse
    /\ planner = NoPlan

\* ------------------------------------------------------------ inputs
Recurrences == {DAILY}
PreferredTimes == {<<"1", "0", ":", "0", "0">>, <<"1", "2", ":", "0", "0">>}
CreditAmounts == {-1, 1}
\* new instants a reschedule request may carry
RescheduleTargets ==
    {posts[q].scheduled_at : q \in DOMAIN posts}

\* ------------------------------------------------------------ clock
AdvanceClock ==
    /\ now + ClockStep <= MaxTime
    /\ now' = now + ClockStep
    /\ UNCHANGED <<users, posts, transactions, nextId, ready, runs, calls, response, planner>>

\* ------------------------------------------------------- Credit Ledger
\* has_sufficient_credits comparing with >= 0: a user without credits passes
HasSufficientCreditsLoose(u) == users[u].credits >= 0

\* CreditsService.has_sufficient_credits(user_id), amount = 1.0
HasSufficientCredits(u) == users[u].credits >= 1

\* credit_transactions row
Tx(u, amount, balance_after, p) ==
    [user_id |-> u, amount |-> amount, balance_after |-> balance_after,
     post_id |-> p]

\* the debit recorded with the sign of a purchase
ChargeTxPositive(u, p) ==
    [user_id |-> u, amount |-> CREDITS_PER_POST,
     balance_after |-> users[u].credits - CREDITS_PER_POST, post_id |-> p]

\* the debit recorded without the reference to its post
ChargeTxUnreferenced(u, p) ==
    [user_id |-> u, amount |-> 0 - CREDITS_PER_POST,
     balance_after |-> users[u].credits - CREDITS_PER_POST, post_id |-> NoPost]

\* the debit recorded with the balance read before the decrement
ChargeTxStale(u, p) ==
    [user_id |-> u, amount |-> 0 - CREDITS_PER_POST,
     balance_after |-> users[u].credits, post_id |-> p]

\* the debit that leaves the used-counter alone
ChargedUserUncounted(row) == [row EXCEPT !.credits = @ - CREDITS_PER_POST]

\* CreditsService.charge_for_post past its balance check: the users row and
\* the new transaction row, committed together
ChargedUser(row) ==
    [row EXCEPT !.credits = @ - CREDITS_PER_POST,
                !.total_credits_used = @ + CREDITS_PER_POST]

ChargeTx(u, p) ==
    Tx(u, 0 - CREDITS_PER_POST, ChargedUser(users[u]).credits, p)

\* add_credits that counts the purchase without raising the balance
CreditedUserLost(row, amount) ==
    [row EXCEPT !.total_credits_purchased = @ + amount]

\* CreditsService.add_credits
CreditedUser(row, amount) ==
    [row EXCEPT !.credits = @ + amount,
                !.total_credits_purchased = @ + amount]

AddCredits(u, amount) ==
    /\ Cardinality(TxOfPost(NoPost)) < MaxPurchases
    /\ users' = [users EXCEPT ![u] = CreditedUser(@, amount)]
    /\ transactions' =
           Append(transactions, Tx(u, amount, CreditedUser(users[u], amount).credits, NoPost))
    /\ UNCHANGED <<now, response, planner, posts, nextId, ready, runs, calls>>

\* --------------------------------------------------------- Post Ledger
\* the duplicate query looking at published rows only
ExistingPostedOnly(u, date) ==
    {p \in DOMAIN posts : /\ posts[p].user_id = u
                          /\ posts[p].scheduled_at = date
                          /\ posts[p].status = POSTED}

\* the duplicate query of schedule_posts_for_user
Existing(u, date) ==
    {p \in DOMAIN posts : /\ posts[p].user_id = u
                          /\ posts[p].scheduled_at = date
                          /\ posts[p].status \in {SCHEDULED, POSTED}}

\* the loop replacing the user's Scheduled rows by the newly planned ones
InsertRowsReplacing(rows, u, dates, id) ==
    LET kept == {q \in DOMAIN rows :
                    ~(rows[q].user_id = u /\ rows[q].status = SCHEDULED)}
    IN IF dates = <<>> THEN [q \in kept |-> rows[q]]
       ELSE [q \in kept |-> rows[q]] @@ (id :> NewPost(u, Head(dates)))

RECURSIVE InsertRows(_, _, _, _)
\* the loop over the dates: one new row per date that has no existing row
InsertRows(rows, u, dates, id) ==
    IF dates = <<>> THEN rows
    ELSE IF Existing(u, Head(dates)) = {}
         THEN InsertRows(rows @@ (id :> NewPost(u, Head(dates))), u, Tail(dates), id + 1)
         ELSE InsertRows(rows, u, Tail(dates), id)

\* SchedulerService.schedule_posts_for_user(user_id, db) for a row u of
\* users as it is when the call is made
SchedulePostsForUser(u, row) ==
    LET plan == CalculateScheduleDates(row.posting_recurrence,
                                       row.custom_recurrence_days,
                                       row.preferred_posting_time,
                                       now, BatchCount)
        rows == InsertRows(posts, u, plan.dates, nextId)
        created == Cardinality(DOMAIN rows) - Cardinality(DOMAIN posts)
    IN IF ~row.is_onboarded \/ plan.raised
       THEN /\ posts' = posts
            /\ nextId' = nextId
       ELSE /\ nextId + created - 1 <= MaxPosts
            /\ posts' = rows
            /\ nextId' = nextId + created

RECURSIVE ScheduledEntries(_, _)
\* the `scheduled` list of the loop: one dict per inserted row.  post.id is
\* read right after db.add(post), before the flush that applies the column
\* default, so the dict holds None
ScheduledEntries(u, dates) ==
    IF dates = <<>> THEN <<>>
    ELSE IF Existing(u, Head(dates)) = {}
         THEN <<[id |-> NoPost, scheduled_at |-> Head(dates)]>>
                  \o ScheduledEntries(u, Tail(dates))
         ELSE ScheduledEntries(u, Tail(dates))

\* what schedule_posts_for_user returns: [] for a user who is not
\* onboarded (and nothing when the planner raises)
SchedulePostsForUserResult(u, row) ==
    LET plan == CalculateScheduleDates(row.posting_recurrence,
                                       row.custom_recurrence_days,
                                       row.preferred_posting_time,
                                       now, BatchCount)
    IN IF ~row.is_onboarded \/ plan.raised THEN <<>>
       ELSE ScheduledEntries(u, plan.dates)

\* a user id that has no row in users
UnknownUser == "u0"

\* a caller that keeps what schedule_posts_for_user returned; for an id
\* without a users row the call returns [] at its first check
ScheduleRequest(u) ==
    /\ IF u \in DOMAIN users
       THEN /\ SchedulePostsForUser(u, users[u])
            /\ response' = Scheduled(u, SchedulePostsForUserResult(u, users[u]))
       ELSE /\ posts' = posts
            /\ nextId' = nextId
            /\ response' = Scheduled(u, <<>>)
    /\ UNCHANGED <<now, planner, users, transactions, ready, runs, calls>>

\* POST /api/posts/schedule
SchedulePosts(u) ==
    /\ SchedulePostsForUser(u, users[u])
    /\ UNCHANGED <<now, response, planner, users, transactions, ready, runs, calls>>

\* process_function_call, save_business_profile: the profile is committed,
\* then the posts are scheduled
SaveBusinessProfile(u, recurrence, time) ==
    /\ users' = [users EXCEPT ![u].posting_recurrence = recurrence,
                              ![u].preferred_posting_time = time,
                              ![u].is_onboarded = TRUE]
    /\ SchedulePostsForUser(u, users'[u])
    /\ UNCHANGED <<now, response, planner, transactions, ready, runs, calls>>

\* process_function_call, update_recurrence
UpdateRecurrence(u, recurrence, time) ==
    /\ users' = [users EXCEPT ![u].posting_recurrence = recurrence,
                              ![u].preferred_posting_time = time]
    /\ SchedulePostsForUser(u, users'[u])
    /\ UNCHANGED <<now, response, planner, transactions, ready, runs, calls>>

\* update_recurrence with a caller that keeps what the
\* schedule_posts_for_user call it makes returned
UpdateRecurrenceRequest(u, recurrence, time) ==
    /\ users' = [users EXCEPT ![u].posting_recurrence = recurrence,
                              ![u].preferred_posting_time = time]
    /\ SchedulePostsForUser(u, users'[u])
    /\ response' = Scheduled(u, SchedulePostsForUserResult(u, users'[u]))
    /\ UNCHANGED <<now, planner, transactions, ready, runs, calls>>

\* cancel_post returning True for every row it finds
CancelPostResultAnyStatus(p) == p \in DOMAIN posts

\* SchedulerService.cancel_post: the returned bool, True on the path that
\* deletes the row
CancelPostResult(p) == p \in DOMAIN posts /\ posts[p].status = SCHEDULED

\* cancel_post deleting the row whatever its status
CancelPostAny(p) ==
    /\ IF p \in DOMAIN posts
       THEN /\ posts' = [q \in DOMAIN posts \ {p} |-> posts[q]]
       ELSE /\ posts' = posts
    /\ UNCHANGED <<now, planner, users, transactions, nextId, ready, runs, calls>>

\* SchedulerService.cancel_post
CancelPost(p) ==
    /\ IF CancelPostResult(p)
       THEN /\ posts' = [q \in DOMAIN posts \ {p} |-> posts[q]]
       ELSE /\ posts' = posts
    /\ UNCHANGED <<now, planner, users, transactions, nextId, ready, runs, calls>>

\* reschedule_post accepting failed rows as well
ReschedulePostResultFailed(p) ==
    p \in DOMAIN posts /\ posts[p].status \in {SCHEDULED, FAILED}

\* SchedulerService.reschedule_post: the returned bool, True on the path
\* that writes the row
ReschedulePostResult(p) == p \in DOMAIN posts /\ posts[p].status = SCHEDULED

\* post.scheduled_at = new_date
RescheduledRow(row, new_date) == [row EXCEPT !.scheduled_at = new_date]

\* reschedule_post without the status check
ReschedulePostAny(p, new_date) ==
    /\ IF p \in DOMAIN posts
       THEN /\ posts' = [posts EXCEPT ![p] = RescheduledRow(@, new_date)]
       ELSE /\ posts' = posts
    /\ UNCHANGED <<now, planner, users, transactions, nextId, ready, runs, calls>>

\* SchedulerService.reschedule_post
ReschedulePost(p, new_date) ==
    /\ IF ReschedulePostResult(p)
       THEN /\ posts' = [posts EXCEPT ![p] = RescheduledRow(@, new_date)]
       ELSE /\ posts' = posts
    /\ UNCHANGED <<now, planner, users, transactions, nextId, ready, runs, calls>>

\* a caller that keeps what cancel_post returned
CancelRequest(p) ==
    /\ CancelPost(p)
    /\ response' = Response("cancel", p, NoTime, CancelPostResult(p))

\* a caller that keeps what reschedule_post returned
RescheduleRequest(p, new_date) ==
    /\ ReschedulePost(p, new_date)
    /\ response' = Response("reschedule", p, new_date, ReschedulePostResult(p))

\* ------------------------------------------------------ Due-Post Poller
TickTask == [task |-> "check_pending_posts", post |-> NoPost]
PostTask(p) == [task |-> "process_post", post |-> p]

\* the cron trigger (every minute) submits the job: the executor creates
\* its task at the back of the loop's queue; at most one instance is
\* pending (max_instances = 1, missed runs coalesced)
TimerFires ==
    /\ \A i \in 1..Len(ready) : ready[i] # TickTask
    /\ ready' = Append(ready, TickTask)
    /\ UNCHANGED <<now, response, planner, users, posts, transactions, nextId, runs, calls>>

\* the due query without its status filter
PendingPostsAnyStatus ==
    {p \in DOMAIN posts : posts[p].scheduled_at <= now}

\* the due query leaving out a row that is due at this very instant
PendingPostsStrict ==
    {p \in DOMAIN posts : posts[p].status = SCHEDULED /\ posts[p].scheduled_at < now}

\* the due query picking failed rows up again
PendingPostsRetry ==
    {p \in DOMAIN posts : /\ posts[p].status \in {SCHEDULED, FAILED}
                          /\ posts[p].scheduled_at <= now}

\* the due query of check_pending_posts
PendingPosts ==
    {p \in DOMAIN posts : posts[p].status = SCHEDULED /\ posts[p].scheduled_at <= now}

\* the orders in which .all() may return a set of rows
Orderings(S) ==
    {seq \in [1..Cardinality(S) -> S] : \A i, j \in DOMAIN seq : i # j => seq[i] # seq[j]}

\* asyncio.create_task: the new tasks go to the back of the loop's queue
CreateTasks(queue, order) == queue \o [i \in DOMAIN order |-> PostTask(order[i])]

\* SchedulerService.check_pending_posts: it never awaits, so it runs from
\* the query to the last create_task in one step
CheckPendingPosts ==
    /\ ready # <<>> /\ Head(ready) = TickTask
    /\ \E order \in Orderings(PendingPosts) :
           ready' = CreateTasks(Tail(ready), order)
    /\ calls' = [p \in PostIds |->
                    IF p \in PendingPosts
                    THEN [calls[p] EXCEPT !.process_post = @ + 1]
                    ELSE calls[p]]
    /\ UNCHANGED <<now, response, planner, users, posts, transactions, nextId, runs>>

\* -------------------------------------------------- Fulfillment Pipeline
Run(p, pc) == [post |-> p, pc |-> pc]
Suspend(r) == runs (+) SetToBag({r})
Resume(r) == runs (-) SetToBag({r})
Called(p, provider) == [calls EXCEPT ![p][provider] = @ + 1]

\* the except block storing a fixed text instead of str(e)
FailedRowGeneric(row, message) ==
    [row EXCEPT !.status = FAILED, !.error_message = "error"]

\* the except block wiping the generated content of the failed row
FailedRowCleared(row, message) ==
    [row EXCEPT !.status = FAILED, !.error_message = message,
                !.image_prompt = Null, !.caption = Null]

\* the except block storing the message without changing the status
FailedRowMessageOnly(row, message) == [row EXCEPT !.error_message = message]

\* except Exception as e: post.status = FAILED; post.error_message = str(e);
\* db.commit()
FailedRow(row, message) == [row EXCEPT !.status = FAILED, !.error_message = message]

\* process_post from its first line to the first await: the row and the
\* credit check are read and the first status is committed without awaiting
ProcessPostStart ==
    /\ ready # <<>> /\ Head(ready).task = "process_post"
    /\ ready' = Tail(ready)
    /\ LET p == Head(ready).post IN
         IF p \notin DOMAIN posts
         THEN UNCHANGED <<posts, runs, calls>>
         ELSE IF ~HasSufficientCredits(posts[p].user_id)
         THEN /\ posts' = [posts EXCEPT ![p] = FailedRow(@, InsufficientMsg)]
              /\ UNCHANGED <<runs, calls>>
         ELSE /\ posts' = [posts EXCEPT ![p].status = GENERATING]
              /\ runs' = Suspend(Run(p, "content"))
              /\ calls' = Called(p, "content")
    /\ UNCHANGED <<now, response, planner, users, transactions, nextId>>

\* a run whose row is gone cannot write: its UPDATE matches no row
RowOf(r) == r.post \in DOMAIN posts

\* the except block failing every post that is in flight, not only its own
AbortAll(r, message) ==
    /\ posts' = [q \in DOMAIN posts |->
                    IF q = r.post \/ posts[q].status \in {GENERATING, READY, POSTING}
                    THEN FailedRow(posts[q], message)
                    ELSE posts[q]]
    /\ runs' = Resume(r)
    /\ UNCHANGED <<now, response, planner, users, transactions, nextId, ready, calls>>

\* the except block of process_post, reached from an await that raised
Abort(r, message) ==
    /\ posts' = IF RowOf(r) THEN [posts EXCEPT ![r.post] = FailedRow(@, message)]
                ELSE posts
    /\ runs' = Resume(r)
    /\ UNCHANGED <<now, response, planner, users, transactions, nextId, ready, calls>>

\* openai_service.generate_post_content returns: prompt and caption are
\* committed and the image provider is called
ContentReturns(r) ==
    /\ BagIn(r, runs) /\ r.pc = "content" /\ RowOf(r)
    /\ posts' = [posts EXCEPT ![r.post].image_prompt = "prompt",
                              ![r.post].caption = "caption"]
    /\ runs' = Resume(r) (+) SetToBag({Run(r.post, "image")})
    /\ calls' = Called(r.post, "image")
    /\ UNCHANGED <<now, response, planner, users, transactions, nextId, ready>>

ContentFails(r) ==
    /\ BagIn(r, runs) /\ r.pc = "content"
    /\ Abort(r, ContentError)

\* nano_banana_service.generate_post_image returns: the image reference and
\* status READY are committed
ImageReturns(r) ==
    /\ BagIn(r, runs) /\ r.pc = "image" /\ RowOf(r)
    /\ posts' = [posts EXCEPT ![r.post].image_local_path = "path",
                              ![r.post].image_url = "url",
                              ![r.post].status = READY]
    /\ runs' = Resume(r) (+) SetToBag({Run(r.post, "ready")})
    /\ UNCHANGED <<now, response, planner, users, transactions, nextId, ready, calls>>

ImageFails(r) ==
    /\ BagIn(r, runs) /\ r.pc = "image"
    /\ Abort(r, ImageError)

\* the publisher called before status POSTING is committed
StartPostingUnsaved(r) ==
    /\ BagIn(r, runs) /\ r.pc = "ready" /\ RowOf(r)
    /\ runs' = Resume(r) (+) SetToBag({Run(r.post, "publish")})
    /\ calls' = Called(r.post, "publish")
    /\ UNCHANGED <<now, response, planner, users, posts, transactions, nextId, ready>>

\* status POSTING is committed and the publisher is called
StartPosting(r) ==
    /\ BagIn(r, runs) /\ r.pc = "ready" /\ RowOf(r)
    /\ posts' = [posts EXCEPT ![r.post].status = POSTING]
    /\ runs' = Resume(r) (+) SetToBag({Run(r.post, "publish")})
    /\ calls' = Called(r.post, "publish")
    /\ UNCHANGED <<now, response, planner, users, transactions, nextId, ready>>

\* facebook_service.post_to_page returns: the external reference, status
\* POSTED and posted_at are committed
PublishReturns(r) ==
    /\ BagIn(r, runs) /\ r.pc = "publish" /\ RowOf(r)
    /\ posts' = [posts EXCEPT ![r.post].facebook_post_id = "fb_id",
                              ![r.post].facebook_post_url = "fb_url",
                              ![r.post].status = POSTED,
                              ![r.post].posted_at = now]
    /\ runs' = Resume(r) (+) SetToBag({Run(r.post, "charge")})
    /\ UNCHANGED <<now, response, planner, users, transactions, nextId, ready, calls>>

PublishFails(r) ==
    /\ BagIn(r, runs) /\ r.pc = "publish"
    /\ Abort(r, PublishError)

\* charge_for_post refusing a balance of exactly one credit
ChargeForPostResultStrict(u) ==
    IF users[u].credits <= CREDITS_PER_POST
    THEN [success |-> FALSE, balance |-> users[u].credits]
    ELSE [success |-> TRUE, balance |-> ChargedUser(users[u]).credits]

\* charge_for_post without its balance check
ChargeForPostResultOverdraw(u) ==
    [success |-> TRUE, balance |-> ChargedUser(users[u]).credits]

\* CreditsService.charge_for_post: the returned pair (success, balance)
ChargeForPostResult(u) ==
    IF users[u].credits < CREDITS_PER_POST
    THEN [success |-> FALSE, balance |-> users[u].credits]
    ELSE [success |-> TRUE, balance |-> ChargedUser(users[u]).credits]

\* credits_service.charge_for_post(user.id, post_id) called by the run:
\* it returns (False, balance) below one credit, otherwise it commits the
\* debit and returns (True, balance)
ChargeForPost(r) ==
    /\ BagIn(r, runs) /\ r.pc = "charge" /\ RowOf(r)
    /\ LET u == posts[r.post].user_id IN
         IF ~ChargeForPostResult(u).success
         THEN /\ runs' = Resume(r)
              /\ UNCHANGED <<users, transactions>>
         ELSE /\ users' = [users EXCEPT ![u] = ChargedUser(@)]
              /\ transactions' = Append(transactions, ChargeTx(u, r.post))
              /\ runs' = Resume(r) (+) SetToBag({Run(r.post, "mark")})
    /\ UNCHANGED <<now, response, planner, posts, nextId, ready, calls>>

\* charge_for_post raises (its commit fails, the session rolls the debit
\* back): the call sits inside the try block, so the except block runs
ChargeRaises(r) ==
    /\ BagIn(r, runs) /\ r.pc = "charge"
    /\ Abort(r, BillingError)

\* the same, and the commit of the except block fails as well: the outer
\* except block logs and the row stays as it was
ChargeRaisesTwice(r) ==
    /\ BagIn(r, runs) /\ r.pc = "charge"
    /\ runs' = Resume(r)
    /\ UNCHANGED <<now, response, planner, users, posts, transactions, nextId, ready, calls>>

\* if success: post.credits_charged = 1.0; db.commit()
MarkCharged(r) ==
    /\ BagIn(r, runs) /\ r.pc = "mark" /\ RowOf(r)
    /\ posts' = [posts EXCEPT ![r.post].credits_charged = 1]
    /\ runs' = Resume(r)
    /\ UNCHANGED <<now, response, planner, users, transactions, nextId, ready, calls>>

Runs == BagToSet(runs)

Onboarded == {u \in Users : users[u].is_onboarded}
Purchases == {a \in CreditAmounts : a > 0}

\* requests of the web layer, the timer and the event loop
Requests ==
    \/ AdvanceClock
    \/ \E u \in Users : SchedulePosts(u)
    \/ \E u \in Users \ Onboarded, rec \in Recurrences, t \in PreferredTimes :
           SaveBusinessProfile(u, rec, t)
    \/ \E u \in Onboarded, rec \in Recurrences, t \in PreferredTimes :
           UpdateRecurrence(u, rec, t)
    \/ \E p \in PostIds : CancelPost(p) /\ UNCHANGED response
    \/ \E p \in PostIds, t \in RescheduleTargets : ReschedulePost(p, t) /\ UNCHANGED response
    \/ TimerFires
    \/ CheckPendingPosts
    \/ ProcessPostStart

\* every behaviour: the ledger write of the billing step may fail, and
\* add_credits is called with any amount it accepts
Next ==
    \/ Requests
    \/ \E u \in Users, amount \in CreditAmounts : AddCredits(u, amount)
    \/ \E r \in Runs : ContentReturns(r)
    \/ \E r \in Runs : ContentFails(r)
    \/ \E r \in Runs : ImageReturns(r)
    \/ \E r \in Runs : ImageFails(r)
    \/ \E r \in Runs : StartPosting(r)
    \/ \E r \in Runs : PublishReturns(r)
    \/ \E r \in Runs : PublishFails(r)
    \/ \E r \in Runs : ChargeForPost(r)
    \/ \E r \in Runs : MarkCharged(r)
    \/ \E r \in Runs : ChargeRaises(r)
    \/ \E r \in Runs : ChargeRaisesTwice(r)

Spec == Init /\ [][Next]_vars

\* the behaviours in which no datastore write fails and credits are only
\* ever purchased
NextReliable ==
    \/ Requests
    \/ \E u \in Users, amount \in Purchases : AddCredits(u, amount)
    \/ \E r \in Runs : ContentReturns(r)
    \/ \E r \in Runs : ContentFails(r)
    \/ \E r \in Runs : ImageReturns(r)
    \/ \E r \in Runs : ImageFails(r)
    \/ \E r \in Runs : StartPosting(r)
    \/ \E r \in Runs : PublishReturns(r)
    \/ \E r \in Runs : PublishFails(r)
    \/ \E r \in Runs : ChargeForPost(r)
    \/ \E r \in Runs : MarkCharged(r)

SpecReliable == Init /\ [][NextReliable]_vars

\* the behaviours without write failures and purchases in which the caller
\* of cancel_post, reschedule_post and schedule_posts_for_user keeps what
\* they return
NextResponses ==
    \/ AdvanceClock
    \/ \E u \in Users : ScheduleRequest(u)
    \/ \E u \in Users \ Onboarded, rec \in Recurrences, t \in PreferredTimes :
           SaveBusinessProfile(u, rec, t)
    \/ \E p \in PostIds : CancelRequest(p)
    \/ \E p \in PostIds, t \in RescheduleTargets : RescheduleRequest(p, t)
    \/ TimerFires
    \/ CheckPendingPosts
    \/ ProcessPostStart
    \/ \E r \in Runs : ContentReturns(r)
    \/ \E r \in Runs : ContentFails(r)
    \/ \E r \in Runs : ImageReturns(r)
    \/ \E r \in Runs : ImageFails(r)
    \/ \E r \in Runs : StartPosting(r)
    \/ \E r \in Runs : PublishReturns(r)
    \/ \E r \in Runs : PublishFails(r)
    \/ \E r \in Runs : ChargeForPost(r)
    \/ \E r \in Runs : MarkCharged(r)

SpecResponses == Init /\ [][NextResponses]_vars

\* the same behaviours with the cadence of an onboarded user changed and
\* with schedule_posts_for_user called for an id that has no user
NextSchedule ==
    \/ NextResponses
    \/ \E u \in Onboarded, rec \in Recurrences, t \in PreferredTimes :
           UpdateRecurrenceRequest(u, rec, t)
    \/ ScheduleRequest(UnknownUser)

SpecSchedule == Init /\ [][NextSchedule]_vars

\* one step of some started run: an external call returns or fails, or the
\* await-free code after it runs
PipelineStep ==
    \E r \in Runs :
        \/ ContentReturns(r) \/ ContentFails(r)
        \/ ImageReturns(r) \/ ImageFails(r)
        \/ StartPosting(r)
        \/ PublishReturns(r) \/ PublishFails(r)
        \/ ChargeForPost(r) \/ MarkCharged(r)

\* the behaviours without write failures and purchases
NextLive ==
    \/ AdvanceClock
    \/ \E u \in Users : SchedulePosts(u)
    \/ \E u \in Users \ Onboarded, rec \in Recurrences, t \in PreferredTimes :
           SaveBusinessProfile(u, rec, t)
    \/ \E p \in PostIds : CancelPost(p) /\ UNCHANGED response
    \/ \E p \in PostIds, t \in RescheduleTargets : ReschedulePost(p, t) /\ UNCHANGED response
    \/ TimerFires
    \/ CheckPendingPosts
    \/ ProcessPostStart
    \/ \E r \in Runs : ContentReturns(r)
    \/ \E r \in Runs : ContentFails(r)
    \/ \E r \in Runs : ImageReturns(r)
    \/ \E r \in Runs : ImageFails(r)
    \/ \E r \in Runs : StartPosting(r)
    \/ \E r \in Runs : PublishReturns(r)
    \/ \E r \in Runs : PublishFails(r)
    \/ \E r \in Runs : ChargeForPost(r)
    \/ \E r \in Runs : MarkCharged(r)

\* the cron trigger keeps firing, the event loop keeps running the task at
\* the head of its queue, and every pending external call returns or fails
SpecLive ==
    /\ Init /\ [][NextLive]_vars
    /\ WF_vars(TimerFires)
    /\ WF_vars(CheckPendingPosts)
    /\ WF_vars(ProcessPostStart)
    /\ WF_vars(PipelineStep)

\* ------------------------------------------- the planner on its own
\* arguments of _calculate_schedule_dates: every RecurrenceType, stored
\* custom intervals (0 for None and for 0), preferred-time strings (<<>>
\* for None) and instants around the preferred times
PlannerCustomDays == (0 - 1)..MaxCustomDays
PlannerTimes ==
    {<<"1", "0", ":", "0", "0">>, <<"0", "9", ":", "3", "0">>,
     <<"0", "0", ":", "0", "0">>, <<"2", "3", ":", "5", "9">>,
     <<"7", ":", "5">>, <<"2", "5", ":", "0", "0">>,
     <<"1", "0", ":", "6", "0">>, <<"1", "x", ":", "0", "0">>,
     <<"1", "0", ":", "0", "0", ":", "0", "0">>,
     <<"n", "o", "o", "n">>, <<>>}
PlannerMinutes == {0, 5, 425, 569, 570, 571, 599, 600, 601, 1439}
PlannerInstants ==
    {d * DayMinutes + m : d \in 0..MaxDays, m \in PlannerMinutes}

PlannerCall(recurrence, custom_days, preferred_time, start_from, count) ==
    [called |-> FALSE, recurrence |-> recurrence, custom_days |-> custom_days,
     preferred_time |-> preferred_time, start_from |-> start_from,
     count |-> count, raised |-> FALSE, dates |-> <<>>]

InitPlanner ==
    /\ now = 0
    /\ users = [u \in Users |-> NewUser]
    /\ posts = NoRows
    /\ transactions = <<>>
    /\ nextId = 1
    /\ ready = <<>>
    /\ runs = EmptyBag
    /\ calls = [p \in PostIds |-> NoCalls]
    /\ response = NoResponse
    /\ \E recurrence \in RecurrenceType, custom_days \in PlannerCustomDays,
          preferred_time \in PlannerTimes, start_from \in PlannerInstants,
          count \in 1..MaxCount :
           planner = PlannerCall(recurrence, custom_days, preferred_time,
                                 start_from, count)

\* the call runs and returns its list, or raises
CallPlanner ==
    /\ ~planner.called
    /\ planner # NoPlan
    /\ LET result == CalculateScheduleDates(planner.recurrence,
                                            planner.custom_days,
                                            planner.preferred_time,
                                            planner.start_from, planner.count)
       IN planner' = [planner EXCEPT !.called = TRUE,
                                     !.raised = result.raised,
                                     !.dates = result.dates]
    /\ UNCHANGED <<now, users, posts, transactions, nextId, ready, runs,
                   calls, response>>

NextPlanner == CallPlanner

SpecPlanner == InitPlanner /\ [][NextPlanner]_vars

\* ================================================================ claims
RECURSIVE Copies(_, _)
\* how many of the started runs in the set S work on post p
Copies(S, p) ==
    IF S = {} THEN 0
    ELSE LET r == CHOOSE x \in S : TRUE
         IN (IF r.post = p THEN CopiesIn(r, runs) ELSE 0) + Copies(S \ {r}, p)

\* process_post tasks of post p that were created and have not ended
InFlight(p) ==
    Cardinality({i \in 1..Len(ready) : ready[i] = PostTask(p)}) + Copies(Runs, p)

\* C1: no two process_post runs are ever in progress for the same post id,
\* and no post is dispatched by more than one tick.
C1_SingleRunPerPost ==
    \A p \in PostIds : InFlight(p) <= 1 /\ calls[p].process_post <= 1

\* a dispatched post has not started yet and the next tick is already queued
C1_Witness ==
    \E p \in DOMAIN posts :
        /\ ready = <<PostTask(p), TickTask>>
        /\ posts[p].status = SCHEDULED
        /\ posts[p].scheduled_at <= now

StatusEdges ==
    {<<SCHEDULED, GENERATING>>, <<GENERATING, READY>>, <<READY, POSTING>>,
     <<POSTING, POSTED>>, <<SCHEDULED, FAILED>>, <<GENERATING, FAILED>>,
     <<READY, FAILED>>, <<POSTING, FAILED>>}

\* C2: every change of a post's status is one of the edges Scheduled ->
\* Generating -> Ready -> Posting -> Posted or X -> Failed with X not
\* terminal; no edge leaves Posted or Failed.
C2_StatusEdges ==
    [][\A p \in DOMAIN posts \cap DOMAIN posts' :
          posts'[p].status # posts[p].status =>
              <<posts[p].status, posts'[p].status>> \in StatusEdges]_vars

C3_NeverTouched ==
    \A p \in DOMAIN posts :
        posts[p].error_message = InsufficientMsg =>
            /\ posts[p].status = FAILED
            /\ posts[p].image_prompt = Null
            /\ posts[p].caption = Null
            /\ posts[p].image_url = Null
            /\ calls[p].content = 0 /\ calls[p].image = 0 /\ calls[p].publish = 0
            /\ TxOfPost(p) = {}

C3_StartStep ==
    \A p \in DOMAIN posts :
        (/\ ready # <<>> /\ Head(ready) = PostTask(p)
         /\ ready' = Tail(ready)
         /\ users[posts[p].user_id].credits < 1)
        => /\ p \in DOMAIN posts'
           /\ posts[p].status = SCHEDULED
           /\ posts'[p].status = FAILED
           /\ posts'[p].error_message = InsufficientMsg
           /\ runs' = runs /\ calls' = calls
           /\ users' = users /\ transactions' = transactions

\* C3: a run that starts for a post whose owner holds less than one credit
\* moves the post straight to Failed with an error message, calls no
\* provider, leaves balance and ledger alone, and the post never gets
\* content or a transaction afterwards.
C3_InsufficientCredits == []C3_NeverTouched /\ [][C3_StartStep]_vars

C3_Witness ==
    \E p \in DOMAIN posts :
        posts[p].error_message = InsufficientMsg /\ InFlight(p) = 0

\* C4: a run in which content, image and publish all succeeded has charged
\* exactly one credit exactly once: one transaction of amount -1 references
\* the post and the post has credits_charged = 1.
C4_ChargedExactlyOnce ==
    \A p \in DOMAIN posts :
        (posts[p].status = POSTED /\ InFlight(p) = 0) =>
            /\ Cardinality(TxOfPost(p)) = 1
            /\ \A i \in TxOfPost(p) : transactions[i].amount = 0 - 1
            /\ posts[p].credits_charged = 1

C6_BillingFailureKeepsPosted ==
    [][\A p \in DOMAIN posts :
          (/\ BagIn(Run(p, "charge"), runs)
           /\ InFlight(p)' = 0
           /\ transactions' = transactions)
          => /\ p \in DOMAIN posts'
             /\ posts'[p] = posts[p]
             /\ posts[p].status = POSTED
             /\ posts[p].credits_charged = 0]_vars

\* C7 as stated: once a post row has status Posted, no later operation
\* changes any field of it.
C7_PostedNeverMutated ==
    [][\A p \in DOMAIN posts :
          posts[p].status = POSTED =>
              p \in DOMAIN posts' /\ posts'[p] = posts[p]]_vars

\* C7: once a post row has status Posted and the run that published it has
\* ended, no later operation changes any field of it or deletes it.
C7_PostedFrozenAfterRun ==
    [][\A p \in DOMAIN posts :
          (posts[p].status = POSTED /\ InFlight(p) = 0) =>
              p \in DOMAIN posts' /\ posts'[p] = posts[p]]_vars

\* a published, billed post is due while a tick is about to run and another
\* row holds another instant a reschedule could move it to
C7_Witness ==
    \E p, q \in DOMAIN posts :
        /\ posts[p].status = POSTED /\ InFlight(p) = 0
        /\ posts[p].credits_charged = 1
        /\ posts[q].scheduled_at # posts[p].scheduled_at
        /\ ready # <<>> /\ Head(ready) = TickTask

\* C8: Failed is terminal: a failed post keeps its status forever, no
\* process_post task is created for it again and no provider is called for
\* it again.
C8_FailedIsTerminal ==
    [][\A p \in DOMAIN posts :
          posts[p].status = FAILED =>
              /\ p \in DOMAIN posts'
              /\ posts'[p].status = FAILED
              /\ calls'[p] = calls[p]
              /\ InFlight(p)' = 0]_vars

\* a failed post is still due when the next tick runs
C8_Witness ==
    \E p \in DOMAIN posts :
        /\ posts[p].status = FAILED
        /\ posts[p].scheduled_at <= now
        /\ ready # <<>> /\ Head(ready) = TickTask

\* C9: for every user the balance equals the initial balance plus the sum
\* of the amounts of the user's transactions.
C9_BalanceIsLedgerSum ==
    \A u \in Users :
        users[u].credits = DEFAULT_CREDITS + SumAmounts(SelectTx(transactions, u))

\* a user with a purchase and a debit in the ledger, and a debit that failed
C9_Witness ==
    \E u \in Users :
        /\ \E i, j \in 1..Len(transactions) :
              /\ transactions[i].user_id = u /\ transactions[i].amount > 0
              /\ transactions[j].user_id = u /\ transactions[j].amount < 0
        /\ \E p \in DOMAIN posts :
              /\ posts[p].user_id = u /\ posts[p].status = POSTED
              /\ InFlight(p) = 0 /\ TxOfPost(p) = {}

\* C10: for every user with at least one transaction, balance_after of the
\* newest transaction equals the current balance.
C10_NewestBalanceAfter ==
    \A u \in Users :
        LET own == SelectTx(transactions, u)
        IN own # <<>> => own[Len(own)].balance_after = users[u].credits

\* a user whose newest transaction is a debit that followed a purchase
C10_Witness ==
    \E u \in Users :
        LET own == SelectTx(transactions, u)
        IN Len(own) >= 2 /\ own[Len(own)].amount < 0 /\ own[1].amount > 0

\* the billing step of the run of post p: the run leaves the await-free
\* segment in which it calls charge_for_post
BillingStep(p) ==
    BagIn(Run(p, "charge"), runs) /\ ~BagIn(Run(p, "charge"), runs')

\* C11: a debit never leaves a balance below zero, and the debit succeeds
\* exactly when has_sufficient_credits is true in the state it is called in.
C11_DebitAgreesWithCheck ==
    [][\A p \in DOMAIN posts :
          BillingStep(p) =>
              LET u == posts[p].user_id
              IN /\ ChargeForPostResult(u).success <=> HasSufficientCredits(u)
                 /\ BagIn(Run(p, "mark"), runs') <=> HasSufficientCredits(u)
                 /\ transactions' # transactions <=> HasSufficientCredits(u)
                 /\ users'[u].credits >= 0]_vars

\* one debit has succeeded and emptied the balance while another post of
\* the same user ended its billing step without a debit
C11_Witness ==
    \E p, q \in DOMAIN posts :
        /\ posts[p].user_id = posts[q].user_id
        /\ BagIn(Run(p, "mark"), runs)
        /\ users[posts[p].user_id].credits = 0
        /\ posts[q].status = POSTED /\ InFlight(q) = 0 /\ TxOfPost(q) = {}

\* C12: a debit called with a balance below one credit returns (False,
\* current balance) and leaves the balance, the used-counter and the
\* transaction log as they were.
C12_DebitFailsClosed ==
    [][\A p \in DOMAIN posts :
          (BillingStep(p) /\ users[posts[p].user_id].credits < 1) =>
              LET u == posts[p].user_id
              IN /\ ChargeForPostResult(u) =
                        [success |-> FALSE, balance |-> users[u].credits]
                 /\ ~BagIn(Run(p, "mark"), runs')
                 /\ users' = users
                 /\ transactions' = transactions]_vars

\* a run reached its billing step after another debit took the owner's
\* last credit
C12_Witness ==
    \E p \in DOMAIN posts :
        /\ posts[p].status = POSTED /\ InFlight(p) = 0 /\ TxOfPost(p) = {}
        /\ users[posts[p].user_id].credits = 0
        /\ users[posts[p].user_id].total_credits_used = 1

\* the debits recorded for user u
DebitsOf(u) ==
    {i \in 1..Len(transactions) :
        transactions[i].user_id = u /\ transactions[i].post_id # NoPost}

C13_Counters ==
    \A u \in Users :
        /\ users[u].total_credits_used = Cardinality(DebitsOf(u))
        /\ users[u].credits =
               DEFAULT_CREDITS + users[u].total_credits_purchased
                   - Cardinality(DebitsOf(u))

C13_DebitStep ==
    \A u \in Users :
        DebitsOf(u)' # DebitsOf(u) =>
            /\ Len(transactions') = Len(transactions) + 1
            /\ users'[u].credits = users[u].credits - 1
            /\ users'[u].total_credits_used = users[u].total_credits_used + 1
            /\ \A v \in Users \ {u} : users'[v] = users[v]

\* C13: with the runs of several posts of one user interleaved, every
\* successful debit lowers the balance by one, raises the used-counter by
\* one and appends one transaction in the same step, so the balance is the
\* starting balance plus the purchases minus the number of debits.
C13_DebitIsAtomic == []C13_Counters /\ [][C13_DebitStep]_vars

\* the runs of two posts of one user were both past their debit at once
C13_Witness ==
    \E p, q \in DOMAIN posts :
        /\ p # q /\ posts[p].user_id = posts[q].user_id
        /\ BagIn(Run(p, "mark"), runs) /\ BagIn(Run(q, "mark"), runs)
        /\ users[posts[p].user_id].total_credits_used = 2

\* C14: the balance of every user is at least zero in every state.
C14_BalanceNonNegative == \A u \in Users : users[u].credits >= 0

\* the step in which a call of op for post p returns to its caller
Returned(op, p) ==
    response' # response /\ response'.op = op /\ response'.post = p

\* C15: cancel_post returns True and deletes the row exactly when the post
\* exists with status Scheduled; otherwise it returns False and leaves
\* every post row as it was.
C15_CancelContract ==
    [][\A p \in PostIds :
          Returned("cancel", p) =>
              IF p \in DOMAIN posts /\ posts[p].status = SCHEDULED
              THEN /\ response'.success
                   /\ DOMAIN posts' = DOMAIN posts \ {p}
                   /\ \A q \in DOMAIN posts' : posts'[q] = posts[q]
              ELSE /\ ~response'.success
                   /\ posts' = posts]_vars

\* a post that was created and cancelled is cancelled a second time, and
\* another row is still there
C15_Witness ==
    /\ response.op = "cancel" /\ ~response.success
    /\ response.post \notin DOMAIN posts
    /\ response.post < nextId
    /\ DOMAIN posts # {}

\* C16: reschedule_post on a Scheduled post returns True and writes
\* scheduled_at only, leaving the other fields, the other rows and the other
\* tables alone; on any other or a missing post it returns False and
\* changes nothing.
C16_RescheduleContract ==
    [][\A p \in PostIds :
          Returned("reschedule", p) =>
              /\ IF p \in DOMAIN posts /\ posts[p].status = SCHEDULED
                 THEN /\ response'.success
                      /\ posts' = [posts EXCEPT
                                      ![p].scheduled_at = response'.new_date]
                 ELSE /\ ~response'.success
                      /\ posts' = posts
              /\ users' = users
              /\ transactions' = transactions]_vars

\* a reschedule moved a Scheduled post onto the instant of another
\* Scheduled post of the same user
C16_Witness ==
    \E p, q \in DOMAIN posts :
        /\ p # q
        /\ posts[p].user_id = posts[q].user_id
        /\ posts[p].status = SCHEDULED /\ posts[q].status = SCHEDULED
        /\ posts[p].scheduled_at = posts[q].scheduled_at
        /\ response = Response("reschedule", p, posts[q].scheduled_at, TRUE)

InFlightStatus == {GENERATING, READY, POSTING}

C17_RunAlive ==
    \A p \in DOMAIN posts :
        posts[p].status \in InFlightStatus => Copies(Runs, p) = 1

C17_RequestStep ==
    \A p \in DOMAIN posts :
        (/\ response' # response /\ response'.post = p
         /\ posts[p].status \in InFlightStatus)
        => /\ ~response'.success
           /\ UNCHANGED <<now, users, posts, transactions, nextId, ready,
                          runs, calls>>

\* C17: a cancel or reschedule call for a post whose status is Generating,
\* Ready or Posting returns False and changes neither the row nor the run:
\* the run is still there and goes on from the state it was in.
C17_InFlightNotInterrupted == []C17_RunAlive /\ [][C17_RequestStep]_vars

\* a cancel was refused while the publisher call of the post is pending
C17_Witness ==
    \E p \in DOMAIN posts :
        /\ response = Response("cancel", p, NoTime, FALSE)
        /\ posts[p].status = POSTING
        /\ BagIn(Run(p, "publish"), runs)

\* a preferred time written HH:MM that names a time of day
IsClock(s) ==
    /\ Len(s) = 5 /\ s[3] = ":"
    /\ \A i \in {1, 2, 4, 5} : s[i] \in Digits
    /\ 10 * DigitVal(s[1]) + DigitVal(s[2]) <= 23
    /\ 10 * DigitVal(s[4]) + DigitVal(s[5]) <= 59

\* its minute of the day
ClockMinute(s) ==
    (10 * DigitVal(s[1]) + DigitVal(s[2])) * HourMinutes
        + 10 * DigitVal(s[4]) + DigitVal(s[5])

\* C18: for every cadence, stored custom interval, preferred time of day and
\* reference instant the planner returns exactly count instants, strictly
\* increasing, consecutive ones a whole positive number of days apart (the
\* interval of the cadence), all strictly after the reference instant.
C18_PlannerInstants ==
    (planner.called /\ IsClock(planner.preferred_time)) =>
        /\ ~planner.raised
        /\ Len(planner.dates) = planner.count
        /\ \A i \in 1..Len(planner.dates) :
               planner.dates[i] > planner.start_from
        /\ \A i \in 1..(Len(planner.dates) - 1) :
               /\ planner.dates[i + 1] > planner.dates[i]
               /\ planner.dates[i + 1] - planner.dates[i] =
                      IntervalDays(planner.recurrence, planner.custom_days)
                          * DayMinutes

\* C19: the first instant returned is the earliest instant strictly after
\* the reference instant that falls on the preferred time of day: on the
\* same day when the reference instant is before the preferred time, on the
\* next day when it is at or after it.
C19_FirstInstant ==
    (planner.called /\ IsClock(planner.preferred_time)) =>
        LET preferred == ClockMinute(planner.preferred_time)
            day == planner.start_from \div DayMinutes
            first == planner.dates[1]
        IN /\ ~planner.raised
           /\ first > planner.start_from
           /\ first % DayMinutes = preferred
           /\ first - DayMinutes <= planner.start_from
           /\ planner.start_from % DayMinutes < preferred
                  => first \div DayMinutes = day
           /\ planner.start_from % DayMinutes >= preferred
                  => first \div DayMinutes = day + 1

\* the planner was called at exactly the preferred time of day
C19_Witness ==
    /\ planner.called /\ IsClock(planner.preferred_time)
    /\ planner.start_from % DayMinutes = ClockMinute(planner.preferred_time)
    /\ planner.dates[1] = planner.start_from + DayMinutes

\* the spacing in days the cadence stands for
CadenceDays(recurrence, custom_days) ==
    CASE recurrence = DAILY -> 1
      [] recurrence = WEEKLY -> 7
      [] recurrence = BIWEEKLY -> 14
      [] recurrence = MONTHLY -> 30
      [] recurrence = CUSTOM -> IF custom_days >= 1 THEN custom_days ELSE 7

\* C20: the instants are 1, 7, 14 or 30 days apart for daily, weekly,
\* biweekly and monthly, N days apart for custom with N >= 1, and 7 days
\* apart for custom with an unset, zero or negative interval.
C20_Spacing ==
    (planner.called /\ ~planner.raised) =>
        \A i \in 1..(Len(planner.dates) - 1) :
            planner.dates[i + 1] - planner.dates[i] =
                CadenceDays(planner.recurrence, planner.custom_days)
                    * DayMinutes

\* the position of the only colon of s, 0 when s has none or several
ColonAt(s) ==
    IF Cardinality({i \in 1..Len(s) : s[i] = ":"}) = 1
    THEN CHOOSE i \in 1..Len(s) : s[i] = ":"
    ELSE 0

\* a preferred time that names no time of day: missing, not two parts
\* around one colon, a part that is no number, or a number out of range
Malformed(s) ==
    LET c == ColonAt(s)
    IN \/ c = 0 \/ c = 1 \/ c = Len(s)
       \/ \E i \in 1..Len(s) \ {c} : s[i] \notin Digits
       \/ DigitsVal(SubSeq(s, 1, c - 1)) > 23
       \/ DigitsVal(SubSeq(s, c + 1, Len(s))) > 59

\* C21: for every malformed preferred time the planner does not fail and
\* returns count instants that all fall on 10:00.
C21_MalformedFallsBack ==
    (planner.called /\ Malformed(planner.preferred_time)) =>
        /\ ~planner.raised
        /\ Len(planner.dates) = planner.count
        /\ \A i \in 1..Len(planner.dates) :
               planner.dates[i] % DayMinutes =
                   FallbackHour * HourMinutes + FallbackMinute

\* C22: a step that inserts post rows never leaves an inserted row with a
\* second row of the same user and the same scheduled_at whose status is
\* Scheduled or Posted, whatever other requests and runs are interleaved.
C22_NoDuplicateInstant ==
    [][\A p \in DOMAIN posts' \ DOMAIN posts :
          \A q \in DOMAIN posts' \ {p} :
              ~(/\ posts'[q].user_id = posts'[p].user_id
                /\ posts'[q].scheduled_at = posts'[p].scheduled_at
                /\ posts'[q].status \in {SCHEDULED, POSTED})]_vars

\* a call for an onboarded user returned no entry: the instant it planned
\* is held by a Scheduled row of that user
C22_Witness ==
    /\ response.op = "schedule" /\ response.entries = <<>>
    /\ response.user \in Onboarded
    /\ \E p \in DOMAIN posts :
          /\ posts[p].user_id = response.user
          /\ posts[p].status = SCHEDULED
          /\ posts[p].scheduled_at > now

\* C23: schedule_posts_for_user returns one entry per row it inserted and
\* none for a skipped instant; every entry carries the id and scheduled_at
\* of its row; every inserted row is Scheduled with the column defaults.
C23_ScheduleResult ==
    [][(response' # response /\ response'.op = "schedule") =>
          LET new == DOMAIN posts' \ DOMAIN posts
              entries == response'.entries
          IN /\ Len(entries) = Cardinality(new)
             /\ \A p \in new :
                    posts'[p] = NewPost(response'.user, posts'[p].scheduled_at)
             /\ \A i \in 1..Len(entries) :
                    /\ entries[i].id \in new
                    /\ posts'[entries[i].id].scheduled_at =
                           entries[i].scheduled_at
             /\ \A i, j \in 1..Len(entries) :
                    i # j => entries[i].id # entries[j].id]_vars

\* process_post tasks for post p waiting in a queue
Queued(queue, p) ==
    Cardinality({i \in 1..Len(queue) : queue[i] = PostTask(p)})

\* the step in which the poller's job runs
TickStep == ready # <<>> /\ Head(ready) = TickTask /\ ready' # ready

C24_Launches ==
    \A p \in PostIds :
        LET due == /\ p \in DOMAIN posts
                   /\ posts[p].status = SCHEDULED
                   /\ posts[p].scheduled_at <= now
            launched == IF TickStep /\ due THEN 1 ELSE 0
        IN /\ TickStep => Queued(ready', p) - Queued(ready, p) = launched
           /\ ~TickStep => Queued(ready', p) <= Queued(ready, p)
           /\ calls'[p].process_post - calls[p].process_post = launched

\* C24: on a tick a run is launched for a post exactly when the post is
\* Scheduled with scheduled_at <= now at that tick: one task per due post,
\* none for a post that is not due or not Scheduled, and no step but a tick
\* launches a run.
C24_LaunchIffDue == [][C24_Launches]_vars

\* a tick launched the run of a due post and left a Scheduled post with a
\* later instant alone
C24_Witness ==
    \E p, q \in DOMAIN posts :
        /\ Queued(ready, p) = 1
        /\ posts[p].status = SCHEDULED /\ posts[p].scheduled_at = now
        /\ posts[q].status = SCHEDULED /\ posts[q].scheduled_at > now
        /\ Queued(ready, q) = 0 /\ calls[q].process_post = 0

\* post p waits for the poller or for its run
Pending(p) ==
    /\ p \in DOMAIN posts
    /\ \/ posts[p].status = SCHEDULED /\ posts[p].scheduled_at <= now
       \/ posts[p].status \in InFlightStatus

\* post p is Posted or Failed, or its owner withdrew it while it was
\* Scheduled (cancelled it or moved it to a later instant)
Settled(p) ==
    \/ p \notin DOMAIN posts
    \/ posts[p].status \in {POSTED, FAILED}
    \/ posts[p].status = SCHEDULED /\ posts[p].scheduled_at > now

ProviderMessage(pc) ==
    CASE pc = "content" -> ContentError
      [] pc = "image" -> ImageError
      [] pc = "publish" -> PublishError

C26_FailureStep ==
    \A p \in DOMAIN posts :
        \A pc \in {"content", "image", "publish"} :
            (/\ BagIn(Run(p, pc), runs)
             /\ posts[p].status # FAILED
             /\ p \in DOMAIN posts' /\ posts'[p].status = FAILED)
            => /\ posts' = [posts EXCEPT
                               ![p].status = FAILED,
                               ![p].error_message = ProviderMessage(pc)]
               /\ InFlight(p)' = 0
               /\ calls' = calls
               /\ users' = users
               /\ transactions' = transactions

C26_AfterFailure ==
    \A p \in DOMAIN posts :
        (/\ posts[p].status = FAILED
         /\ posts[p].error_message \in {ContentError, ImageError, PublishError})
        => /\ InFlight(p) = 0
           /\ TxOfPost(p) = {}
           /\ posts[p].credits_charged = 0
           /\ posts[p].error_message = ContentError
                  => calls[p].image = 0 /\ calls[p].publish = 0
           /\ posts[p].error_message = ImageError => calls[p].publish = 0

\* C26: when the content, image or publish call of a run fails, the post
\* becomes Failed with that failure's message in the same step, the run
\* ends without another external call, and no transaction is created and
\* no balance changes, then or later.
C26_ProviderFailure == []C26_AfterFailure /\ [][C26_FailureStep]_vars

\* the publish call of a post failed after its content and image calls
\* returned, while the run of another post goes on
C26_Witness ==
    \E p, q \in DOMAIN posts :
        /\ posts[p].status = FAILED /\ posts[p].error_message = PublishError
        /\ calls[p].publish = 1
        /\ posts[q].status \in InFlightStatus

\* C27: a run whose content call returned and whose image call failed
\* leaves the post Failed with the generated image_prompt and caption, no
\* image reference, no posted_at, no external post id and no transaction.
C27_PartialContentKept ==
    \A p \in DOMAIN posts :
        (posts[p].status = FAILED /\ posts[p].error_message = ImageError) =>
            /\ posts[p].image_prompt = "prompt"
            /\ posts[p].caption = "caption"
            /\ posts[p].image_url = Null
            /\ posts[p].image_local_path = Null
            /\ posts[p].posted_at = NoTime
            /\ posts[p].facebook_post_id = Null
            /\ posts[p].facebook_post_url = Null
            /\ TxOfPost(p) = {}

\* the image call of a post failed
C27_Witness ==
    \E p \in DOMAIN posts :
        /\ posts[p].status = FAILED /\ posts[p].error_message = ImageError
        /\ calls[p].content = 1 /\ calls[p].image = 1
        /\ InFlight(p) = 0

\* C28: posted_at of every post is null or at or after its scheduled_at.
C28_PostedAfterScheduled ==
    \A p \in DOMAIN posts :
        posts[p].posted_at = NoTime \/ posts[p].posted_at >= posts[p].scheduled_at

\* C29: error_message of a post is non-null only if its status is Failed.
C29_MessageOnlyWhenFailed ==
    \A p \in DOMAIN posts :
        posts[p].error_message # Null => posts[p].status = FAILED

\* one post failed with a message while another was published without one
C29_Witness ==
    \E p, q \in DOMAIN posts :
        /\ posts[p].status = FAILED /\ posts[p].error_message = ContentError
        /\ posts[q].status = POSTED /\ posts[q].error_message = Null

\* C30: credits_charged of a post is 0 or 1, and it is 1 only if the post
\* is Posted and a debit of one credit references it.
C30_ChargedOnlyWhenBilled ==
    \A p \in DOMAIN posts :
        /\ posts[p].credits_charged \in {0, 1}
        /\ posts[p].credits_charged = 1 =>
               /\ posts[p].status = POSTED
               /\ \E i \in TxOfPost(p) : transactions[i].amount = 0 - 1

\* one post was published and billed, another published without a debit
C30_Witness ==
    \E p, q \in DOMAIN posts :
        /\ posts[p].credits_charged = 1 /\ InFlight(p) = 0
        /\ posts[q].status = POSTED /\ posts[q].credits_charged = 0
        /\ InFlight(q) = 0

\* C31: the external post id, the public URL and posted_at of a post are
\* non-null only if the post's status is Posted.
C31_ReferenceOnlyWhenPosted ==
    \A p \in DOMAIN posts :
        (\/ posts[p].facebook_post_id # Null
         \/ posts[p].facebook_post_url # Null
         \/ posts[p].posted_at # NoTime) => posts[p].status = POSTED

\* the started runs that work on post p
RunsOf(S, p) == {r \in S : r.post = p}

\* a step of the process_post task of post p: the task starts, or its run
\* moves on or ends
C32_RunStep(p) ==
    \/ ready # <<>> /\ Head(ready) = PostTask(p) /\ ready' = Tail(ready)
    \/ RunsOf(Runs, p) # RunsOf(Runs', p)

C32_FailureIsLocal ==
    \A p \in PostIds :
        /\ C32_RunStep(p) =>
              /\ DOMAIN posts' = DOMAIN posts
              /\ \A q \in DOMAIN posts \ {p} : posts'[q] = posts[q]
              /\ \A q \in PostIds \ {p} :
                     /\ calls'[q] = calls[q]
                     /\ Queued(ready', q) = Queued(ready, q)
                     /\ RunsOf(Runs', q) = RunsOf(Runs, q)
                     /\ Copies(Runs, q)' = Copies(Runs, q)
        /\ (/\ C32_RunStep(p)
            /\ p \in DOMAIN posts /\ posts[p].status # FAILED
            /\ posts'[p].status = FAILED)
           => /\ users' = users
              /\ transactions' = transactions
              /\ now' = now
        /\ (/\ TickStep
            /\ p \in DOMAIN posts
            /\ posts[p].status = SCHEDULED /\ posts[p].scheduled_at <= now)
           => Queued(ready', p) = Queued(ready, p) + 1

\* C32: a step of the run of one post, whether the run goes on, succeeds
\* or fails, changes no field of another post row and nothing of another
\* post's task, run or provider calls; a step in which a post fails changes
\* no balance and no transaction, so the other runs go on from the state
\* they would have been in; and a tick creates the task of every due post.
C32_FailuresAreLocal == [][C32_FailureIsLocal]_vars

\* two posts were dispatched; one failed at its image call, the other was
\* published and billed
C32_Witness ==
    \E p, q \in DOMAIN posts :
        /\ posts[p].status = FAILED /\ posts[p].error_message = ImageError
        /\ calls[p].process_post = 1 /\ calls[q].process_post = 1
        /\ calls[q].content = 1 /\ calls[q].image = 1 /\ calls[q].publish = 1
        /\ posts[q].status = POSTED /\ posts[q].credits_charged = 1
        /\ InFlight(p) = 0 /\ InFlight(q) = 0

C33_PublishedOnce ==
    \A p \in PostIds : calls[p].publish <= 1

C33_TickSkipsInFlight ==
    \A p \in DOMAIN posts :
        (TickStep /\ (InFlight(p) > 0 \/ calls[p].publish > 0))
            => /\ Queued(ready', p) = Queued(ready, p)
               /\ calls'[p] = calls[p]

\* C33: the publisher is called at most once per post id over any
\* execution; a tick that runs while a task of the post is queued or its
\* run is in flight, or after the post was handed to the publisher, creates
\* no further task for it.
C33_NoDoublePublish == []C33_PublishedOnce /\ [][C33_TickSkipsInFlight]_vars

\* the poller's job is the next task to run while one due post is at the
\* publisher and the run of another one, dispatched earlier, is in flight
C33_Witness ==
    \E p, q \in DOMAIN posts :
        /\ p # q
        /\ ready # <<>> /\ Head(ready) = TickTask
        /\ posts[p].status = POSTING /\ calls[p].publish = 1
        /\ posts[p].scheduled_at <= now
        /\ posts[q].status \in InFlightStatus /\ calls[q].process_post = 1

\* the stored row of a post while its run waits for a provider or is about
\* to invoke the debit
C34_StoredWhileAwaiting ==
    \A r \in Runs :
        RowOf(r) =>
            LET row == posts[r.post] IN
            /\ r.pc = "content" => row.status = GENERATING
            /\ r.pc = "image" =>
                   /\ row.status = GENERATING
                   /\ row.image_prompt = "prompt" /\ row.caption = "caption"
            /\ r.pc = "publish" =>
                   /\ row.status = POSTING
                   /\ row.image_url = "url" /\ row.image_local_path = "path"
            /\ r.pc = "charge" =>
                   /\ row.status = POSTED /\ row.posted_at # NoTime

\* the stored row in the step in which a provider receives its request or
\* the debit is invoked
C34_StoredWhenCalled ==
    \A p \in DOMAIN posts :
        /\ calls'[p].content > calls[p].content =>
               posts'[p].status = GENERATING
        /\ calls'[p].image > calls[p].image =>
               /\ posts'[p].image_prompt = "prompt"
               /\ posts'[p].caption = "caption"
        /\ calls'[p].publish > calls[p].publish =>
               /\ posts'[p].status = POSTING
               /\ posts'[p].image_url = "url"
               /\ posts'[p].image_local_path = "path"
        /\ BillingStep(p) =>
               /\ posts[p].status = POSTED /\ posts[p].posted_at # NoTime

\* C34: every step of the pipeline is stored before the next call is made:
\* the content provider is called with status Generating stored, the image
\* provider with image_prompt and caption stored, the publisher with status
\* Posting and the image reference stored, and the debit is invoked with
\* status Posted and posted_at stored.
C34_PersistedBeforeNextCall ==
    []C34_StoredWhileAwaiting /\ [][C34_StoredWhenCalled]_vars

\* the debit of a published post has been committed and its run has not
\* yet written credits_charged
C34_Witness ==
    \E p \in DOMAIN posts :
        /\ BagIn(Run(p, "mark"), runs)
        /\ calls[p].content = 1 /\ calls[p].image = 1 /\ calls[p].publish = 1
        /\ posts[p].status = POSTED /\ posts[p].posted_at # NoTime
        /\ TxOfPost(p) # {}

\* posts of user u that were published
PublishedOf(u) ==
    {p \in DOMAIN posts : posts[p].user_id = u /\ posts[p].status = POSTED}

\* C35: when no write fails, every post that ends Posted has
\* credits_charged = 1 and exactly one debit referencing it, and no user has
\* more posts published than the credits they held (the initial credit and
\* what they purchased).
C35_EveryPostedIsBilled ==
    /\ \A p \in DOMAIN posts :
           (posts[p].status = POSTED /\ InFlight(p) = 0) =>
               /\ posts[p].credits_charged = 1
               /\ Cardinality({i \in TxOfPost(p) : transactions[i].amount < 0}) = 1
    /\ \A u \in Users :
           Cardinality(PublishedOf(u))
               <= DEFAULT_CREDITS + users[u].total_credits_purchased

\* post ids whose row was deleted
Cancelled == {p \in PostIds : p < nextId /\ p \notin DOMAIN posts}

C36_CancelledUntouched ==
    \A p \in Cancelled :
        /\ calls[p].content = 0 /\ calls[p].image = 0 /\ calls[p].publish = 0
        /\ Copies(Runs, p) = 0
        /\ TxOfPost(p) = {}

C36_CancelledStep ==
    \A p \in PostIds :
        /\ (Returned("cancel", p) /\ response'.success) => p \in Cancelled'
        /\ p \in Cancelled => p \in Cancelled'
        /\ (/\ p \in Cancelled
            /\ ready # <<>> /\ Head(ready) = PostTask(p) /\ ready' = Tail(ready))
           => UNCHANGED <<users, posts, transactions, runs, calls>>

\* C36: a post whose cancel returned True is never published: its row is
\* gone for good, no provider was or is called for it and no transaction
\* references it; a task the poller had already created for it finds no
\* row and ends without writing anything.
C36_CancelledNeverPublished == []C36_CancelledUntouched /\ [][C36_CancelledStep]_vars

\* a tick created the task of a post, cancel_post then returned True, and
\* the task has run and ended
C36_Witness ==
    \E p \in Cancelled :
        /\ response = Response("cancel", p, NoTime, TRUE)
        /\ calls[p].process_post = 1
        /\ InFlight(p) = 0

\* C37: no two rows of one user with status Scheduled or Posted share a
\* scheduled_at.
C37_UniqueInstantPerUser ==
    \A p, q \in DOMAIN posts :
        (/\ p # q
         /\ posts[p].user_id = posts[q].user_id
         /\ posts[p].status \in {SCHEDULED, POSTED}
         /\ posts[q].status \in {SCHEDULED, POSTED})
        => posts[p].scheduled_at # posts[q].scheduled_at

\* the step in which a call of schedule_posts_for_user returns
ScheduleStep == response' # response /\ response'.op = "schedule"

C38_ScheduleStep ==
    /\ DOMAIN posts' \ DOMAIN posts # {} =>
           \A p \in DOMAIN posts : p \in DOMAIN posts' /\ posts'[p] = posts[p]
    /\ ScheduleStep =>
           LET u == response'.user IN
           /\ \A p \in DOMAIN posts : p \in DOMAIN posts' /\ posts'[p] = posts[p]
           /\ \A p \in DOMAIN posts' \ DOMAIN posts :
                  posts'[p].user_id = u /\ posts'[p].status = SCHEDULED
           /\ (u \notin DOMAIN users' \/ ~users'[u].is_onboarded) =>
                  /\ response'.entries = <<>>
                  /\ posts' = posts

\* C38: schedule_posts_for_user only inserts rows: a call, also one made
\* after the cadence changed, leaves every existing row of every user
\* present and unchanged, so the Scheduled rows of the previous cadence stay
\* Scheduled; for an id without a user and for a user who is not onboarded
\* it returns an empty list and inserts nothing.
C38_ScheduleOnlyInserts == [][C38_ScheduleStep]_vars

\* after a change of the preferred time the call inserted a row at the new
\* time and the row planned under the old time is still Scheduled
C38_Witness ==
    /\ response.op = "schedule" /\ Len(response.entries) = 1
    /\ response.user \in Onboarded
    /\ \E p, q \in DOMAIN posts :
          /\ p < q
          /\ posts[p].user_id = response.user /\ posts[q].user_id = response.user
          /\ posts[p].status = SCHEDULED /\ posts[q].status = SCHEDULED
          /\ posts[q].scheduled_at = response.entries[1].scheduled_at
          /\ posts[p].scheduled_at % DayMinutes # posts[q].scheduled_at % DayMinutes

\* the transactions of user u with a negative amount (debits) and with a
\* positive amount (credits)
NegativeOf(u) ==
    SelectSeq(SelectTx(transactions, u), LAMBDA t : t.amount < 0)

PositiveOf(u) ==
    SelectSeq(SelectTx(transactions, u), LAMBDA t : t.amount > 0)

\* C39: for every user the used-counter is the number of the user's debit
\* transactions, the purchased-counter is the sum of the amounts of the
\* user's credit transactions, and the balance is the initial balance plus
\* the purchased-counter minus the used-counter.
C39_CountersMatchLedger ==
    \A u \in Users :
        /\ users[u].total_credits_used = Len(NegativeOf(u))
        /\ users[u].total_credits_purchased = SumAmounts(PositiveOf(u))
        /\ users[u].credits =
               DEFAULT_CREDITS + users[u].total_credits_purchased
                   - users[u].total_credits_used

====
